---- MODULE Spec2Model ----
(***************************************************************************)
(* AlphaFlow back-testing engine: the trade simulator (execute_strategy),  *)
(* the metrics it derives from the equity curve, the logic combinator      *)
(* (evaluate_logic) and the HTTP handlers that hold the loaded dataset.    *)
(*                                                                         *)
(* Prices and balances are integers (the code uses floats; rounding is not *)
(* modelled).  A metric whose value is a real number is represented by its *)
(* class: NaN, zero, positive or negative, computed with exact rational    *)
(* arithmetic from the integer equity curve.                               *)
(***************************************************************************)
EXTENDS Integers, Sequences, FiniteSets, TLC

\* ---------------------------------------------------------------- bounds
MaxBars == 3
InitialBalance == 100
MaxLoading == 1
MaxLongBars == 5

Prices == {1, 2}
PositionSizes == {1, 2}
OrderTypes == {"market", "limit"}

\* A bar of the price series: the columns execute_strategy reads.  The
\* timestamp of bar k is its position k (0-based, as .iloc).
Bars == [open : Prices, close : Prices]

\* Values a signal Series may hold; the last two are not boolean.
BoolVals == {"True", "False"}
NonBoolVals == {"0", "1"}

RECURSIVE SeqsUpTo(_, _)
SeqsUpTo(S, n) ==
    IF n = 0 THEN {<<>>}
    ELSE LET shorter == SeqsUpTo(S, n - 1)
         IN  shorter \cup {Append(s, x) : s \in {t \in shorter : Len(t) = n - 1}, x \in S}

SeqsOfLen(S, n) == {s \in SeqsUpTo(S, n) : Len(s) = n}

VARIABLES
    pc,             \* position of the running call
    df,             \* the price series (a sequence of bars)
    entry_signal,   \* entry signal Series
    exit_signal,    \* exit signal Series
    order_type,
    initial_balance,
    position_size,
    i,              \* loop index of execute_strategy (0-based)
    trades,         \* the trade ledger
    in_position,
    entry_price,
    balance,
    equity_curve,
    max_equity,
    drawdown,
    summary,        \* the summary dict, or NoSummary before return
    error,          \* the exception that ended the call, or "none"
    ohlcv_data,     \* main.py's module-level dataset
    last_good,      \* history: dataset of the last load that returned 200
    request,        \* the /run-strategy request being served
    response,       \* the last HTTP response
    simulated,      \* history: execute_strategy was entered for the request
    loading         \* uploads whose load_data is suspended in `await file.read()`

simVars == <<df, entry_signal, exit_signal, order_type, initial_balance,
             position_size, i, trades, in_position, entry_price, balance,
             equity_curve, max_equity, drawdown, summary>>
apiVars == <<ohlcv_data, last_good, request, response, simulated, loading>>
vars == <<pc, simVars, error, apiVars>>

\* ------------------------------------------------------------ float classes
NaN == "NaN"
Zero == "0.0"
Pos == "+"
Neg == "-"

Sign(n) == IF n > 0 THEN Pos ELSE IF n < 0 THEN Neg ELSE Zero

Max(a, b) == IF a >= b THEN a ELSE b

NoSummary == [returned |-> FALSE]
NoRequest == [entry |-> <<>>, exit |-> <<>>, conditions |-> <<>>, order_type |-> "market"]
NoResponse == [status |-> 0, detail |-> "none"]
\* ohlcv_data = None
NoneData == [name |-> "None", columns |-> {}, bars |-> <<>>]

\* ------------------------------------------------------------------ signals
\* Python truth value of a signal element, as `if`/`and` take it.
Truthy(v) == v \in {"True", "1"}

\* Series.iloc[k] raises IndexError when k is past the end.
InRange(s, k) == k < Len(s)

\* ------------------------------------------------------------------ metrics
\* A return is the rational <<numerator, denominator>> with denominator > 0.
\* portfolio_values.pct_change().dropna(): one return per bar after the first.
\* (Balances stay positive within the bounds, so no return is inf or NaN.)
PctChange(pv) == [k \in 1..(Len(pv) - 1) |-> <<pv[k + 1] - pv[k], pv[k]>>]

RatLess(a, b) == a[1] * b[2] < b[1] * a[2]
RatEq(a, b) == a[1] * b[2] = b[1] * a[2]

RECURSIVE RatSum(_)
RatSum(rs) ==
    IF Len(rs) = 0 THEN <<0, 1>>
    ELSE IF rs[1][1] = 0 THEN RatSum(Tail(rs))    \* a zero return adds nothing
    ELSE LET t == RatSum(Tail(rs))
         IN  <<rs[1][1] * t[2] + t[1] * rs[1][2], rs[1][2] * t[2]>>

\* Series.mean(): NaN on an empty Series.
MeanClass(rs) == IF Len(rs) = 0 THEN NaN ELSE Sign(RatSum(rs)[1])

\* Series.std() (sample deviation, ddof = 1): NaN with fewer than 2 values.
StdClass(rs) ==
    IF Len(rs) < 2 THEN NaN
    ELSE IF \A j, k \in 1..Len(rs) : RatEq(rs[j], rs[k]) THEN Zero
    ELSE Pos

\* a / b on floats, for b not zero: NaN propagates.
Ratio(a, b) ==
    IF a = NaN \/ b = NaN THEN NaN
    ELSE IF a = Zero THEN Zero
    ELSE IF a = b THEN Pos ELSE Neg

\* abs() on floats.
AbsClass(a) == IF a = Neg THEN Pos ELSE a

\* `x == 0` on floats: False for NaN.
IsZero(a) == a = Zero

\* (end / start) ** (1 / n_years) - 1, with 1 / n_years = 252 / len and
\* n_years > 0 whenever there are 2 points.  For end >= 0 it has the sign of
\* end - start.  For end < 0 the power of the negative base is a real number
\* only when 252 / len is an integer (the float 1 / (len / 252) is then
\* exactly that integer): (|end| / start) ** k for even k, its negative for
\* odd k; otherwise the power is NaN.
calculate_cagr(pv) ==
    LET n == Len(pv)
        start == pv[1]
        end == pv[n]
    IN  IF n < 2 THEN Zero
        ELSE IF start <= 0 THEN Zero
        ELSE IF end >= 0 THEN Sign(end - start)
        ELSE IF 252 % n # 0 THEN NaN
        ELSE IF (252 \div n) % 2 = 0 THEN Sign((0 - end) - start)
        ELSE Neg

calculate_sharpe(returns) ==
    IF IsZero(StdClass(returns)) THEN Zero
    ELSE Ratio(MeanClass(returns), StdClass(returns))

IsNegative(r) == r[1] < 0

calculate_sortino(returns) ==
    LET downside == SelectSeq(returns, IsNegative)
    IN  IF IsZero(StdClass(downside)) THEN Zero
        ELSE Ratio(MeanClass(returns), StdClass(downside))

RECURSIVE CumMax(_, _)
\* portfolio_values.cummax() at position k (1-based).
CumMax(pv, k) == IF k = 1 THEN pv[1] ELSE Max(CumMax(pv, k - 1), pv[k])

\* (portfolio_values / running_max - 1).min(): NaN on an empty Series.
MinDrawdownClass(pv) ==
    IF Len(pv) = 0 THEN NaN
    ELSE IF \E k \in 1..Len(pv) : pv[k] < CumMax(pv, k) THEN Neg
    ELSE Zero

calculate_calmar(pv) ==
    LET cagr == calculate_cagr(pv)
        dd == MinDrawdownClass(pv)
    IN  IF IsZero(dd) THEN Zero ELSE Ratio(cagr, AbsClass(dd))

\* drawdowns.max() and drawdown_pct.max(): NaN on an empty Series; the two
\* have the same class because running_max is positive.
MaxDrawdownClass(pv) ==
    IF Len(pv) = 0 THEN NaN
    ELSE IF \E k \in 1..Len(pv) : pv[k] < CumMax(pv, k) THEN Pos
    ELSE Zero

calculate_max_drawdown(pv) ==
    [usd |-> MaxDrawdownClass(pv), pct |-> MaxDrawdownClass(pv)]

calculate_volatility(returns) == StdClass(returns)

\* The two smallest returns, for the 5% quantile of at most 21 values:
\* quantile(0.05) interpolates linearly between them at (n - 1) * 0.05.
IsMin(rs, k) == \A j \in 1..Len(rs) : ~RatLess(rs[j], rs[k])
MinIdx(rs) == CHOOSE k \in 1..Len(rs) : IsMin(rs, k)
Without(rs, k) == [j \in 1..(Len(rs) - 1) |-> IF j < k THEN rs[j] ELSE rs[j + 1]]

calculate_var(returns) ==
    LET n == Len(returns)
    IN  IF n = 0 THEN NaN
        ELSE IF n = 1 THEN AbsClass(Sign(returns[1][1]))
        ELSE LET x0 == returns[MinIdx(returns)]
                 rest == Without(returns, MinIdx(returns))
                 x1 == rest[MinIdx(rest)]
                 \* x0 * (20 - (n-1))/20 + x1 * (n-1)/20
                 num == x0[1] * x1[2] * (21 - n) + x1[1] * x0[2] * (n - 1)
             IN  AbsClass(Sign(num))

\* --------------------------------------------------------- execute_strategy
\* Mutant of FillPrice: a limit order filled at the open of its own bar.
FillPrice_SameBarOpen(k) ==
    IF order_type = "market" THEN df[k + 1].close ELSE df[k + 1].open

\* The price an order taken at bar k (0-based) is filled at: lines 41, 45.
FillPrice(k) ==
    LET price == df[k + 1].close
    IN  IF order_type = "market" THEN price
        ELSE IF k + 1 < Len(df) THEN df[k + 2].open
        ELSE price

EntryRecord(p, k) == [type |-> "entry", price |-> p, timestamp |-> k]
ExitRecord(p, k, pnl, bal) ==
    [type |-> "exit", price |-> p, timestamp |-> k, pnl |-> pnl, balance |-> bal]

\* Locals of a fresh call: lines 29-36.
StartCall ==
    /\ i' = 0
    /\ trades' = <<>>
    /\ in_position' = FALSE
    /\ entry_price' = 0
    /\ balance' = initial_balance'
    /\ equity_curve' = <<>>
    /\ max_equity' = initial_balance'
    /\ drawdown' = 0
    /\ summary' = NoSummary

\* Mutant of EndOfBar: the curve records the balance the bar started with.
EndOfBar_Stale(bal) ==
    /\ equity_curve' = Append(equity_curve, balance)
    /\ max_equity' = Max(max_equity, bal)
    /\ drawdown' = Max(drawdown, Max(max_equity, bal) - bal)
    /\ i' = i + 1

\* The tail of every loop iteration: lines 58-60.
EndOfBar(bal) ==
    /\ equity_curve' = Append(equity_curve, bal)
    /\ max_equity' = Max(max_equity, bal)
    /\ drawdown' = Max(drawdown, Max(max_equity, bal) - bal)
    /\ i' = i + 1

\* Series.iloc[i] past the end of a signal: the call dies with IndexError.
RaiseIndexError ==
    /\ pc' = "raised"
    /\ error' = "IndexError"
    /\ UNCHANGED <<simVars, apiVars>>

\* Lines 39-43.
OpenPosition ==
    /\ in_position' = TRUE
    /\ entry_price' = FillPrice(i)
    /\ trades' = Append(trades, EntryRecord(FillPrice(i), i))
    /\ UNCHANGED balance
    /\ EndOfBar(balance)

\* Mutant of ClosePosition: the position flag is not cleared.
ClosePosition_StaysLong ==
    LET exit_price == FillPrice(i)
        pnl == (exit_price - entry_price) * position_size
    IN  /\ balance' = balance + pnl
        /\ trades' = Append(trades, ExitRecord(exit_price, i, pnl, balance + pnl))
        /\ in_position' = TRUE
        /\ UNCHANGED entry_price
        /\ EndOfBar(balance + pnl)

\* Mutant of ClosePosition: the balance is set from the starting balance
\* and this trade's pnl instead of being accumulated.
ClosePosition_Overwrite ==
    LET exit_price == FillPrice(i)
        pnl == (exit_price - entry_price) * position_size
    IN  /\ balance' = initial_balance + pnl
        /\ trades' = Append(trades, ExitRecord(exit_price, i, pnl, initial_balance + pnl))
        /\ in_position' = FALSE
        /\ UNCHANGED entry_price
        /\ EndOfBar(initial_balance + pnl)

\* Lines 44-57.
ClosePosition ==
    LET exit_price == FillPrice(i)
        pnl == (exit_price - entry_price) * position_size
    IN  /\ balance' = balance + pnl
        /\ trades' = Append(trades, ExitRecord(exit_price, i, pnl, balance + pnl))
        /\ in_position' = FALSE
        /\ UNCHANGED entry_price
        /\ EndOfBar(balance + pnl)

NoTransition ==
    /\ UNCHANGED <<trades, in_position, entry_price, balance>>
    /\ EndOfBar(balance)

\* Mutant of ProcessBar: the exit test is an `if`, not an `elif`, so a
\* position opened on a bar can be closed on the same bar.
OpenAndClose ==
    LET p == FillPrice(i)
    IN  /\ trades' = Append(Append(trades, EntryRecord(p, i)),
                            ExitRecord(p, i, 0, balance))
        /\ entry_price' = p
        /\ in_position' = FALSE
        /\ UNCHANGED balance
        /\ EndOfBar(balance)

ProcessBar_IfIf ==
    /\ pc = "loop"
    /\ i < Len(df)
    /\ InRange(entry_signal, i) /\ InRange(exit_signal, i)
    /\ IF ~in_position
       THEN IF Truthy(entry_signal[i + 1])
            THEN IF Truthy(exit_signal[i + 1]) THEN OpenAndClose ELSE OpenPosition
            ELSE NoTransition
       ELSE IF Truthy(exit_signal[i + 1]) THEN ClosePosition ELSE NoTransition
    /\ UNCHANGED <<pc, error, apiVars, df, entry_signal, exit_signal,
                   order_type, initial_balance, position_size, summary>>

\* One iteration of the loop over the bars: lines 37-60.
ProcessBar ==
    /\ pc = "loop"
    /\ i < Len(df)
    /\ IF ~in_position
       THEN IF ~InRange(entry_signal, i) THEN RaiseIndexError
            ELSE /\ IF Truthy(entry_signal[i + 1]) THEN OpenPosition ELSE NoTransition
                 /\ UNCHANGED <<pc, error, apiVars, df, entry_signal, exit_signal,
                                order_type, initial_balance, position_size, summary>>
       ELSE IF ~InRange(exit_signal, i) THEN RaiseIndexError
            ELSE /\ IF Truthy(exit_signal[i + 1]) THEN ClosePosition ELSE NoTransition
                 /\ UNCHANGED <<pc, error, apiVars, df, entry_signal, exit_signal,
                                order_type, initial_balance, position_size, summary>>

IsExit(t) == t.type = "exit"
IsWin(t) == t.type = "exit" /\ t.pnl > 0

\* The summary dict: lines 62-91.
Summary ==
    LET portfolio_values == equity_curve
        returns == PctChange(portfolio_values)
        max_dd == calculate_max_drawdown(portfolio_values)
        total_trades == Len(SelectSeq(trades, IsExit))
    IN  [returned |-> TRUE,
         total_trades |-> total_trades,
         total_pnl |-> balance - initial_balance,
         win_rate |-> IF total_trades # 0
                      THEN Sign(Len(SelectSeq(trades, IsWin)))
                      ELSE Zero,
         max_drawdown_usd |-> max_dd.usd,
         max_drawdown_pct |-> max_dd.pct,
         CAGR |-> calculate_cagr(portfolio_values),
         Sharpe |-> calculate_sharpe(returns),
         Sortino |-> calculate_sortino(returns),
         Calmar |-> calculate_calmar(portfolio_values),
         Volatility |-> calculate_volatility(returns),
         VaR_95 |-> calculate_var(returns),
         final_balance |-> balance]

\* The loop is over: metrics, summary and return (lines 61-92).
Finish ==
    /\ pc = "loop"
    /\ i = Len(df)
    /\ summary' = Summary
    /\ pc' = "returned"
    /\ UNCHANGED <<df, entry_signal, exit_signal, order_type, initial_balance,
                   position_size, i, trades, in_position, entry_price, balance,
                   equity_curve, max_equity, drawdown, error, apiVars>>

\* No dataset loaded, no request served yet.
IdleApi ==
    /\ ohlcv_data = NoneData
    /\ last_good = NoneData
    /\ request = NoRequest
    /\ response = NoResponse
    /\ simulated = FALSE
    /\ loading = {}

\* ----------------------------------------------------------- evaluate_logic
\* df.eval(cond) for the condition strings the requests use.
CondEval(bars, cond) ==
    [k \in 1..Len(bars) |->
        IF cond = "close > open"
        THEN (IF bars[k].close > bars[k].open THEN "True" ELSE "False")
        ELSE (IF bars[k].close < bars[k].open THEN "True" ELSE "False")]

\* f'COND{idx+1}'
CondName(k) == CASE k = 1 -> "COND1" [] k = 2 -> "COND2" [] OTHER -> "COND3"

\* cond_results: lines 16-20.
CondResults(bars, conditions) ==
    [name \in {CondName(k) : k \in 1..Len(conditions)} |->
        CondEval(bars, conditions[CHOOSE k \in 1..Len(conditions) : CondName(k) = name])]

\* A logic string is the sequence of its blank-separated tokens.
\* logic.upper(), per token.
UpperTok(t) ==
    CASE t \in {"and", "And"} -> "AND"
      [] t \in {"or", "Or"} -> "OR"
      [] t \in {"not", "Not"} -> "NOT"
      [] t \in {"cond1", "Cond1"} -> "COND1"
      [] t \in {"cond2", "Cond2"} -> "COND2"
      [] t \in {"cond3", "Cond3"} -> "COND3"
      [] OTHER -> t

\* The three re.sub calls, per token (no condition name contains a keyword).
SubstTok(t) ==
    CASE t = "AND" -> "&" [] t = "OR" -> "|" [] t = "NOT" -> "~" [] OTHER -> t

LogicEval(logic) == [k \in 1..Len(logic) |-> SubstTok(UpperTok(logic[k]))]

RECURSIVE SplitAt(_, _)
SplitAt(toks, sep) ==
    IF \A k \in 1..Len(toks) : toks[k] # sep THEN <<toks>>
    ELSE LET k == CHOOSE j \in 1..Len(toks) :
                    toks[j] = sep /\ \A h \in 1..(j - 1) : toks[h] # sep
         IN  <<SubSeq(toks, 1, k - 1)>> \o SplitAt(SubSeq(toks, k + 1, Len(toks)), sep)

Ok(v) == [err |-> "none", val |-> v]
Raised(e) == [err |-> e, val |-> <<>>]

NotVal(v) == [k \in 1..Len(v) |-> IF v[k] = "True" THEN "False" ELSE "True"]
AndVal(a, b) ==
    [k \in 1..Len(a) |-> IF a[k] = "True" /\ b[k] = "True" THEN "True" ELSE "False"]
OrVal(a, b) ==
    [k \in 1..Len(a) |-> IF a[k] = "True" \/ b[k] = "True" THEN "True" ELSE "False"]

\* Python parses the whole expression before it evaluates any name.
Combine(a, b, v) ==
    IF a.err = "SyntaxError" \/ b.err = "SyntaxError" THEN Raised("SyntaxError")
    ELSE IF a.err # "none" THEN a
    ELSE IF b.err # "none" THEN b
    ELSE Ok(v)

\* A name looked up in local_dict, then in the globals, then in the
\* builtins: __builtins__ is None, so the last lookup subscripts None and a
\* name that is not a condition raises TypeError.
EvalName(name, env, n) ==
    IF name \in DOMAIN env THEN Ok(env[name]) ELSE Raised("TypeError")

RECURSIVE EvalFactor(_, _, _)
\* ~ ... ~ NAME
EvalFactor(f, env, n) ==
    IF Len(f) = 0 THEN Raised("SyntaxError")
    ELSE IF f[1] = "~"
         THEN LET r == EvalFactor(Tail(f), env, n)
              IN  IF r.err # "none" THEN r ELSE Ok(NotVal(r.val))
    ELSE IF Len(f) = 1 THEN EvalName(f[1], env, n)
    ELSE Raised("SyntaxError")

RECURSIVE EvalAnd(_, _, _)
\* factor & factor & ... (a sequence of factors, folded from the right end)
EvalAnd(fs, env, n) ==
    IF Len(fs) = 1 THEN EvalFactor(fs[1], env, n)
    ELSE LET a == EvalAnd(SubSeq(fs, 1, Len(fs) - 1), env, n)
             b == EvalFactor(fs[Len(fs)], env, n)
         IN  Combine(a, b, IF a.err = "none" /\ b.err = "none"
                           THEN AndVal(a.val, b.val) ELSE <<>>)

RECURSIVE EvalOr(_, _, _)
\* term | term | ...
EvalOr(ts, env, n) ==
    IF Len(ts) = 1 THEN EvalAnd(SplitAt(ts[1], "&"), env, n)
    ELSE LET a == EvalOr(SubSeq(ts, 1, Len(ts) - 1), env, n)
             b == EvalAnd(SplitAt(ts[Len(ts)], "&"), env, n)
         IN  Combine(a, b, IF a.err = "none" /\ b.err = "none"
                           THEN OrVal(a.val, b.val) ELSE <<>>)

\* evaluate_logic(df, conditions, logic): the signal, or the exception.
evaluate_logic(bars, conditions, logic) ==
    EvalOr(SplitAt(LogicEval(logic), "|"), CondResults(bars, conditions), Len(bars))

\* ------------------------------------------------------------ HTTP handlers
RequiredColumns == {"open", "high", "low", "close", "volume"}

\* str.lower() on the column names the uploads use.
Lower(c) ==
    CASE c = "Open" -> "open" [] c = "High" -> "high" [] c = "Low" -> "low"
      [] c = "Close" -> "close" [] c = "Volume" -> "volume" [] OTHER -> c

SeriesA == <<[open |-> 1, close |-> 2], [open |-> 2, close |-> 1], [open |-> 1, close |-> 2]>>
SeriesB == <<[open |-> 2, close |-> 2], [open |-> 1, close |-> 2]>>
SeriesC == <<[open |-> 2, close |-> 1], [open |-> 1, close |-> 2]>>

\* The files a client uploads: a good CSV, a good CSV with capitalised
\* headers, a CSV without a volume column, a file read_csv cannot parse, and
\* a file that is not named *.csv.
Uploads ==
    { [filename |-> "a.csv", parses |-> TRUE, bars |-> SeriesA,
       columns |-> {"timestamp", "open", "high", "low", "close", "volume"}],
      [filename |-> "b.csv", parses |-> TRUE, bars |-> SeriesB,
       columns |-> {"timestamp", "Open", "High", "Low", "Close", "Volume"}],
      [filename |-> "c.csv", parses |-> TRUE, bars |-> SeriesC,
       columns |-> {"timestamp", "open", "high", "low", "close"}],
      [filename |-> "d.csv", parses |-> FALSE, bars |-> <<>>, columns |-> {}],
      [filename |-> "e.txt", parses |-> TRUE, bars |-> SeriesA,
       columns |-> {"timestamp", "open", "high", "low", "close", "volume"}] }

\* file.filename.endswith('.csv')
EndsWithCsv(name) == name \in {"a.csv", "b.csv", "c.csv", "d.csv"}

Frame(file, cols) == [name |-> file.filename, columns |-> cols, bars |-> file.bars]

Reply(st, d) == [status |-> st, detail |-> d]

\* POST /load-data up to `await file.read()`: lines 39-57.  The handler
\* returns to the event loop there, so other handlers run before it resumes.
load_data(file) ==
    /\ pc = "idle"
    /\ file \notin loading
    /\ Cardinality(loading) < MaxLoading
    /\ IF ~EndsWithCsv(file.filename)
       THEN /\ response' = Reply(400, "File must be a CSV")
            /\ UNCHANGED loading
       ELSE /\ loading' = loading \cup {file}
            /\ UNCHANGED response
    /\ UNCHANGED <<pc, simVars, error, ohlcv_data, last_good, request, simulated>>

LoadData == \E file \in Uploads : load_data(file)

\* POST /load-data once the read has completed: lines 57-80.
load_data_resume(file) ==
    /\ pc = "idle"
    /\ file \in loading
    /\ loading' = loading \ {file}
    /\ IF ~file.parses
       THEN \* read_csv_to_dataframe raised before the assignment of line 59
            /\ response' = Reply(400, "parse error")
            /\ UNCHANGED <<ohlcv_data, last_good>>
       ELSE IF RequiredColumns \ {Lower(c) : c \in file.columns} # {}
       THEN \* line 59 has stored the frame; lines 65-70 raise
            /\ ohlcv_data' = Frame(file, file.columns)
            /\ response' = Reply(400, "Missing required columns")
            /\ UNCHANGED last_good
       ELSE /\ ohlcv_data' = Frame(file, {Lower(c) : c \in file.columns})
            /\ last_good' = Frame(file, {Lower(c) : c \in file.columns})
            /\ response' = Reply(200, "Data loaded successfully")
    /\ UNCHANGED <<pc, simVars, error, request, simulated>>

LoadDataResume == \E file \in Uploads : load_data_resume(file)

\* GET /get-data: lines 82-99.  OHLCV(**row) needs every field of the model.
GetData ==
    /\ pc = "idle"
    /\ response' =
         IF ohlcv_data = NoneData THEN Reply(404, "No data has been loaded")
         ELSE IF (RequiredColumns \cup {"timestamp"}) \subseteq ohlcv_data.columns
              THEN Reply(200, ohlcv_data.name)
              ELSE Reply(500, "Failed to return data")
    /\ UNCHANGED <<pc, simVars, error, ohlcv_data, last_good, request, simulated, loading>>

ConditionLists == {<<"close > open">>, <<"close > open", "close < open">>}
Logics ==
    { <<"COND1">>, <<"COND1", "AND", "COND2">>, <<"COND1", "AND", "COND3">>,
      <<"not", "cond1", "or", "COND2">> }
Requests ==
    [conditions : ConditionLists, entry : Logics, exit : Logics, order_type : OrderTypes]

\* POST /run-strategy up to the call of execute_strategy: lines 106-141.
\* (Requests carry no indicators; initial_balance and position_size are the
\* request's execution parameters.)
run_strategy(req) ==
    /\ pc = "idle"
    /\ request' = req
    /\ IF ohlcv_data = NoneData
       THEN /\ response' = Reply(400, "No data loaded. Upload data first.")
            /\ error' = "HTTPException"
            /\ simulated' = FALSE
            /\ UNCHANGED <<pc, simVars>>
       ELSE LET bars == ohlcv_data.bars
                es == evaluate_logic(bars, req.conditions, req.entry)
                xs == evaluate_logic(bars, req.conditions, req.exit)
            IN  IF es.err # "none"
                THEN /\ response' = Reply(500, es.err)
                     /\ error' = es.err
                     /\ simulated' = FALSE
                     /\ UNCHANGED <<pc, simVars>>
                ELSE IF xs.err # "none"
                THEN /\ response' = Reply(500, xs.err)
                     /\ error' = xs.err
                     /\ simulated' = FALSE
                     /\ UNCHANGED <<pc, simVars>>
                ELSE /\ pc' = "loop"
                     /\ simulated' = TRUE
                     /\ error' = "none"
                     /\ df' = bars
                     /\ entry_signal' = es.val
                     /\ exit_signal' = xs.val
                     /\ order_type' = req.order_type
                     /\ initial_balance' = InitialBalance
                     /\ position_size' = 1
                     /\ StartCall
                     /\ UNCHANGED response
    /\ UNCHANGED <<ohlcv_data, last_good, loading>>

RunStrategy == \E req \in Requests : run_strategy(req)

\* The locals of execute_strategy and of run_strategy are gone once the
\* handler has ended.
ClearFrame ==
    /\ df' = <<>>
    /\ entry_signal' = <<>>
    /\ exit_signal' = <<>>
    /\ order_type' = "market"
    /\ initial_balance' = InitialBalance
    /\ position_size' = 1
    /\ StartCall

\* run_strategy after execute_strategy returned: lines 142-157.  The result
\* holds 'trades' and 'summary' only, so result['total_pnl'] raises KeyError.
Respond ==
    /\ pc = "returned"
    /\ simulated
    /\ pc' = "idle"
    /\ error' = "KeyError"
    /\ response' = Reply(500, "KeyError")
    /\ ClearFrame
    /\ UNCHANGED <<ohlcv_data, last_good, request, simulated, loading>>

InitApi ==
    /\ IdleApi
    /\ pc = "idle"
    /\ df = <<>>
    /\ entry_signal = <<>>
    /\ exit_signal = <<>>
    /\ order_type = "market"
    /\ initial_balance = InitialBalance
    /\ position_size = 1
    /\ i = 0
    /\ trades = <<>>
    /\ in_position = FALSE
    /\ entry_price = 0
    /\ balance = InitialBalance
    /\ equity_curve = <<>>
    /\ max_equity = InitialBalance
    /\ drawdown = 0
    /\ summary = NoSummary
    /\ error = "none"

NextApi == LoadData \/ LoadDataResume \/ GetData \/ RunStrategy \/ ProcessBar \/ Finish \/ Respond

SpecApi == InitApi /\ [][NextApi]_vars

\* ------------------------------------------------------------ direct calls
CallState(d, es, xs, ot, ps) ==
    /\ pc = "loop"
    /\ df = d
    /\ entry_signal = es
    /\ exit_signal = xs
    /\ order_type = ot
    /\ initial_balance = InitialBalance
    /\ position_size = ps
    /\ i = 0
    /\ trades = <<>>
    /\ in_position = FALSE
    /\ entry_price = 0
    /\ balance = InitialBalance
    /\ equity_curve = <<>>
    /\ max_equity = InitialBalance
    /\ drawdown = 0
    /\ summary = NoSummary
    /\ error = "none"

\* execute_strategy called with any series of at most MaxBars bars and
\* boolean signals aligned with it.
Init ==
    /\ IdleApi
    /\ \E n \in 0..MaxBars :
         \E d \in SeqsOfLen(Bars, n), es \in SeqsOfLen(BoolVals, n),
            xs \in SeqsOfLen(BoolVals, n), ot \in OrderTypes, ps \in PositionSizes :
              CallState(d, es, xs, ot, ps)

Next == ProcessBar \/ Finish

Spec == Init /\ [][Next]_vars

\* Direct calls whose signals need not be aligned or boolean: one signal is
\* any sequence of at most Len(df) + 1 values, boolean or not, the other is a
\* boolean signal of the series' length.  (Bars with open = close keep the
\* set of calls small; the alignment does not depend on the prices.)
FlatBars == {b \in Bars : b.open = b.close}
SignalVals == BoolVals \cup NonBoolVals

InitAlign ==
    /\ IdleApi
    /\ \E n \in 0..MaxBars :
         \E d \in SeqsOfLen(FlatBars, n), bad \in SeqsUpTo(SignalVals, n + 1),
            good \in SeqsOfLen(BoolVals, n), ot \in OrderTypes :
              \/ CallState(d, bad, good, ot, 1)
              \/ CallState(d, good, bad, ot, 1)

SpecAlign == InitAlign /\ [][Next]_vars

\* Direct calls on longer series, long enough for several round trips.  The
\* loop reads the entry signal only while FLAT and the exit signal only while
\* LONG, so one boolean sequence used as both signals already produces every
\* placement of entries and exits; bars have open = close, over three prices.
LongPrices == {1, 2, 3}
LongBars == {[open |-> p, close |-> p] : p \in LongPrices}

InitLong ==
    /\ IdleApi
    /\ \E n \in 0..MaxLongBars :
         \E d \in SeqsOfLen(LongBars, n), sig \in SeqsOfLen(BoolVals, n),
            ot \in OrderTypes, ps \in PositionSizes :
              CallState(d, sig, sig, ot, ps)

SpecLong == InitLong /\ [][Next]_vars

\* ------------------------------------------------------------------ claims
CountType(ty) == Cardinality({k \in 1..Len(trades) : trades[k].type = ty})

RECURSIVE SumPnl(_)
SumPnl(ts) ==
    IF Len(ts) = 0 THEN 0
    ELSE (IF ts[1].type = "exit" THEN ts[1].pnl ELSE 0) + SumPnl(Tail(ts))

\* C1: after every bar the ledger holds 0 or 1 more entry records than exit
\* records, and it alternates entry, exit, entry, ... starting with an entry.
C1_LedgerAlternates ==
    /\ CountType("entry") - CountType("exit") \in {0, 1}
    /\ \A k \in 1..Len(trades) :
         trades[k].type = IF k % 2 = 1 THEN "entry" ELSE "exit"

C1_Witness ==
    /\ i = 3
    /\ Len(trades) = 3
    /\ in_position

\* C2: a bar appends at most one ledger record: FLAT with the entry signal
\* true only opens (whatever the exit signal), LONG with the exit signal true
\* only closes (whatever the entry signal), and an exit signal while FLAT or
\* an entry signal while LONG changes nothing.
C2_BarStep ==
    (pc = "loop" /\ i' = i + 1) =>
        LET e == Truthy(entry_signal[i + 1])
            x == Truthy(exit_signal[i + 1])
            n == Len(trades)
        IN  /\ Len(trades') <= n + 1
            /\ (~in_position /\ e) =>
                 /\ Len(trades') = n + 1
                 /\ SubSeq(trades', 1, n) = trades
                 /\ trades'[n + 1].type = "entry"
                 /\ in_position'
            /\ (in_position /\ x) =>
                 /\ Len(trades') = n + 1
                 /\ SubSeq(trades', 1, n) = trades
                 /\ trades'[n + 1].type = "exit"
                 /\ ~in_position'
            /\ (~in_position /\ ~e) =>
                 (trades' = trades /\ ~in_position' /\ balance' = balance)
            /\ (in_position /\ ~x) =>
                 (trades' = trades /\ in_position' /\ balance' = balance)

C2_OneTransitionPerBar == [][C2_BarStep]_vars

\* Both signals true on bar 0 (FLAT: entry only) and on bar 1 (LONG: exit only).
C2_Witness ==
    /\ i = 2
    /\ Truthy(entry_signal[1]) /\ Truthy(exit_signal[1])
    /\ Truthy(entry_signal[2]) /\ Truthy(exit_signal[2])
    /\ Len(trades) = 2
    /\ trades[1].timestamp = 0
    /\ trades[2].timestamp = 1

\* C3: on return total_pnl = final_balance - initial_balance, final_balance =
\* initial_balance + the sum of the exits' pnl, and each exit's pnl is (its
\* price - the price of the entry record before it) * position_size; an open
\* position contributes nothing.
C3_RealizedPnl ==
    pc = "returned" =>
        /\ summary.total_pnl = summary.final_balance - initial_balance
        /\ summary.final_balance = initial_balance + SumPnl(trades)
        /\ \A k \in 1..Len(trades) :
             trades[k].type = "exit" =>
                /\ k > 1
                /\ trades[k - 1].type = "entry"
                /\ trades[k].pnl =
                     (trades[k].price - trades[k - 1].price) * position_size

\* Two round trips with different results and a third position left open.
C3_Witness ==
    /\ pc = "returned"
    /\ position_size = 2
    /\ Len(trades) = 5
    /\ trades[2].pnl = -2
    /\ trades[4].pnl = 4
    /\ trades[3].price # trades[1].price
    /\ in_position
    /\ summary.final_balance = initial_balance + 2

ExitAt(b) == {k \in 1..Len(trades) : trades[k].type = "exit" /\ trades[k].timestamp = b}

\* C4: the equity curve has one value per processed bar (Len(df) values on
\* return); the value of bar b is the exit record's balance if an exit was
\* emitted at bar b, and the previous bar's value (initial_balance for bar 0)
\* otherwise.
C4_EquityCurve ==
    /\ Len(equity_curve) = i
    /\ pc = "returned" => Len(equity_curve) = Len(df)
    /\ \A k \in 1..Len(equity_curve) :
         LET prev == IF k = 1 THEN initial_balance ELSE equity_curve[k - 1]
         IN  IF ExitAt(k - 1) # {}
             THEN \A t \in ExitAt(k - 1) : equity_curve[k] = trades[t].balance
             ELSE equity_curve[k] = prev

C4_Witness ==
    /\ pc = "returned"
    /\ Len(df) = 3
    /\ equity_curve[1] = initial_balance
    /\ equity_curve[2] = initial_balance + 1
    /\ equity_curve[3] = initial_balance + 1

\* C5: a record taken at bar b carries the close of bar b for a market order;
\* for a limit order the open of bar b+1 if that bar exists, else the close
\* of bar b; entries and exits alike.
C5_RecordedPrice ==
    \A k \in 1..Len(trades) :
        LET b == trades[k].timestamp
        IN  trades[k].price =
                IF order_type = "market" THEN df[b + 1].close
                ELSE IF b + 2 <= Len(df) THEN df[b + 2].open
                ELSE df[b + 1].close

\* A limit entry filled at the next open (which differs from the bar's
\* close) and a limit exit on the last bar filled at that bar's close.
C5_Witness ==
    /\ pc = "returned"
    /\ order_type = "limit"
    /\ Len(df) = 2
    /\ Len(trades) = 2
    /\ trades[1].price = df[2].open
    /\ df[2].open # df[1].close
    /\ trades[2].timestamp = 1
    /\ trades[2].price = df[2].close
    /\ df[2].close # df[2].open

\* C6: on an empty series execute_strategy returns an empty ledger, an empty
\* equity curve, final_balance = initial_balance, total_trades = 0 and every
\* metric equal to 0.0.
C6_EmptySeries ==
    (pc = "returned" /\ Len(df) = 0) =>
        /\ trades = <<>>
        /\ equity_curve = <<>>
        /\ summary.final_balance = initial_balance
        /\ summary.total_trades = 0
        /\ summary.win_rate = Zero
        /\ summary.max_drawdown_usd = Zero
        /\ summary.max_drawdown_pct = Zero
        /\ summary.CAGR = Zero
        /\ summary.Sharpe = Zero
        /\ summary.Sortino = Zero
        /\ summary.Calmar = Zero
        /\ summary.Volatility = Zero
        /\ summary.VaR_95 = Zero

IsConstant(s) == \A j, k \in 1..Len(s) : s[j] = s[k]

\* C8: Sharpe, Sortino, Calmar and VaR are 0.0 (not NaN) for an equity curve
\* with a single point and for a constant equity curve.
C8_DegenerateCurve ==
    (pc = "returned" /\ Len(equity_curve) >= 1 /\ IsConstant(equity_curve)) =>
        /\ summary.Sharpe = Zero
        /\ summary.Sortino = Zero
        /\ summary.Calmar = Zero
        /\ summary.VaR_95 = Zero

IsBoolean(s) == \A k \in 1..Len(s) : s[k] \in BoolVals
Aligned(s) == Len(s) = Len(df) /\ IsBoolean(s)

\* C7: with an entry or exit signal whose length differs from the series'
\* or whose values are not boolean, execute_strategy processes no bar and
\* returns nothing: the call ends in SignalAlignmentError.
C7_SignalAlignment ==
    (~Aligned(entry_signal) \/ ~Aligned(exit_signal)) =>
        /\ i = 0
        /\ trades = <<>>
        /\ pc # "returned"
        /\ pc = "raised" => error = "SignalAlignmentError"

Names(logic) == {LogicEval(logic)[k] : k \in 1..Len(logic)} \ {"&", "|", "~"}
Defined(req) == {CondName(k) : k \in 1..Len(req.conditions)}
RefsUndefined(req) ==
    (Names(req.entry) \cup Names(req.exit)) \ Defined(req) # {}

\* C9: a run on a (successfully) loaded dataset whose entry or exit logic
\* names an undefined condition ends in UnknownConditionError before
\* execute_strategy is called.
C9_UnknownCondition ==
    (/\ request # NoRequest
     /\ RefsUndefined(request)
     /\ error # "HTTPException"
     /\ ohlcv_data = last_good) =>
        /\ error = "UnknownConditionError"
        /\ ~simulated
        /\ pc = "idle"

\* C10: a load that ends in an error leaves the loaded dataset unchanged: the
\* dataset the handlers see is that of the last load that succeeded (None if
\* no load has succeeded).
C10_FailedLoadKeepsData == ohlcv_data = last_good

====
